---- MODULE Spec2Model ----
(***************************************************************************)
(* Model of the puzzle solvers of aoc2024: the day 2 report-safety search  *)
(* (report_safety, part1, part2), the day 1 distance sum (part1) and the   *)
(* winnow parsers of both days (parse).                                    *)
(*                                                                         *)
(* Levels are u32 values and the deltas are i32 values.  The model checker *)
(* has 32-bit integers, so a number is kept as two limbs <<hi, lo>> that   *)
(* stand for hi * 65536 + lo with lo in 0 .. 65535; hi may be negative.    *)
(***************************************************************************)
EXTENDS Integers, Sequences, FiniteSets, TLC

VARIABLES
    report,          \* day2 report_safety: the report, a sequence of u32 levels
    skip_enabled,    \* day2 report_safety: the skip_enabled argument
    overflow_checks, \* the build: TRUE panics on integer overflow, FALSE wraps
    states,          \* day2 report_safety: the states drained in this round
    tmp_states,      \* day2 report_safety: the successor set under construction
    rounds,          \* number of iterations of the while loop started so far
    result,          \* "Running", "Safe", "Unsafe" or "Panic"
    overflowed,      \* an integer operation has wrapped (build without checks)
    reports,         \* day2 part1/part2: the collection of reports
    count1,          \* day2 part1: not called yet, returned a count, or panicked
    count2,          \* day2 part2: not called yet, returned a count, or panicked
    pairs,           \* day1 part1: the list of (left, right) pairs
    left,            \* day1 part1: the left column
    right,           \* day1 part1: the right column
    pc1,             \* day1 part1: position in the function
    sum,             \* day1 part1: the accumulator of sum()
    input,           \* parse: the input text, a sequence of characters
    grammar,         \* parse: "reports" (day 2) or "list" (day 1)
    leading_zeros,   \* parse: whether the winnow in use reads "007" as 7
    parsed           \* parse: not called yet, Ok(value) or Err

vars == <<report, skip_enabled, overflow_checks, states, tmp_states, rounds,
          result, overflowed, reports, count1, count2,
          pairs, left, right, pc1, sum, input, grammar, leading_zeros, parsed>>

safetyVars == <<report, skip_enabled, states, tmp_states, rounds, result, overflowed>>
aggVars == <<reports, count1, count2>>
day1Vars == <<pairs, left, right, pc1, sum>>
parseVars == <<input, grammar, leading_zeros, parsed>>

----------------------------------------------------------------------------
(* Bounds of the model. *)

\* longest report explored
MaxLen == 4
\* the small levels are 0 .. MaxLow
MaxLow == 3

----------------------------------------------------------------------------
(* Two-limb numbers: u32 levels and i32 deltas. *)

Limb == 65536
Half == 32768

Norm(h, l) == <<h + (l \div Limb), l % Limb>>

SubW(x, y) == Norm(x[1] - y[1], x[2] - y[2])

AddW(x, y) == Norm(x[1] + y[1], x[2] + y[2])

LessW(x, y) == x[1] < y[1] \/ (x[1] = y[1] /\ x[2] < y[2])

U32(n) == <<0, n>>

U32Max == <<Limb - 1, Limb - 1>>

I32Min == <<-Half, 0>>

\* 2147483648, the u32 that `as i32` turns into i32::MIN
U32Mid == <<Half, 0>>

InU32(n) == n[1] >= 0 /\ n[1] < Limb

InI32(n) == n[1] >= -Half /\ n[1] < Half

\* `x as i32` for a u32 x: the same 32 bits read as two's complement
as_i32(u) == IF u[1] >= Half THEN <<u[1] - Limb, u[2]>> ELSE u

\* the 32 low bits of n read as two's complement (wrapping arithmetic)
WrapI32(n) == <<((n[1] + Half) % Limb) - Half, n[2]>>

signum(n) == IF n[1] < 0 THEN -1 ELSE IF n = <<0, 0>> THEN 0 ELSE 1

NegW(n) == Norm(-n[1], -n[2])

\* the mathematical absolute value
AbsW(n) == IF n[1] < 0 THEN NegW(n) ELSE n

\* i32::abs in a build without overflow checks: abs(i32::MIN) = i32::MIN
abs(n) == WrapI32(AbsW(n))

\* (1..=3).contains(&n)
InGap(n) == n[1] = 0 /\ n[2] \in 1..3

Levels == {U32(v) : v \in 0..MaxLow} \cup {U32Mid, U32Max}

SeqsUpTo(S, n) == UNION {[1..k -> S] : k \in 0..n}

Reports == SeqsUpTo(Levels, MaxLen)

----------------------------------------------------------------------------
(* Day 2: the search states of report_safety. *)

Start == [tag |-> "Start", i |-> 0, sign |-> 0, skipped |-> FALSE]

End == [tag |-> "End", i |-> 0, sign |-> 0, skipped |-> FALSE]

Pos(i, sign, skipped) == [tag |-> "Pos", i |-> i, sign |-> sign, skipped |-> skipped]

\* report[to] as i32 - report[i] as i32, before it is cut to 32 bits
WideDelta(r, i, to) == SubW(as_i32(r[to + 1]), as_i32(r[i + 1]))

\* assess_move without the test (delta_sign + sign) != 0
assess_move_any_direction(r, i, sign, to) ==
    IF to >= Len(r) \/ i >= Len(r)
    THEN [valid |-> FALSE, sign |-> 0, overflow |-> FALSE, oob |-> TRUE]
    ELSE LET wide == WideDelta(r, i, to)
             delta == WrapI32(wide)
         IN  [valid |-> InGap(abs(delta)),
              sign |-> signum(delta),
              overflow |-> ~InI32(wide) \/ delta = I32Min,
              oob |-> FALSE]

\* The closure assess_move of state Pos(i, sign, _), called with `to`.
\* oob: report[to] or report[i] is out of range (a panic in every build);
\* overflow: the subtraction or abs() overflows i32 (a panic in a build with
\* overflow checks, a wrapped value otherwise).  abs() is only evaluated when
\* the left operand of && is true.
assess_move(r, i, sign, to) ==
    IF to >= Len(r) \/ i >= Len(r)
    THEN [valid |-> FALSE, sign |-> 0, overflow |-> FALSE, oob |-> TRUE]
    ELSE LET wide == WideDelta(r, i, to)
             delta == WrapI32(wide)
             delta_sign == signum(delta)
             dirOk == (delta_sign + sign) # 0
         IN  [valid |-> dirOk /\ InGap(abs(delta)),
              sign |-> delta_sign,
              overflow |-> ~InI32(wide) \/ (dirOk /\ delta = I32Min),
              oob |-> FALSE]

\* the arm State::Start without the test report.len() > 1
StartStep_no_len_guard(r, skip) ==
    (IF Len(r) # 0 THEN {Pos(0, 0, FALSE)} ELSE {})
    \cup (IF skip THEN {Pos(1, 0, TRUE)} ELSE {})

\* The arm State::Start: the successors inserted into tmp_states.
StartStep(r, skip) ==
    (IF Len(r) # 0 THEN {Pos(0, 0, FALSE)} ELSE {})
    \cup (IF Len(r) > 1 /\ skip THEN {Pos(1, 0, TRUE)} ELSE {})

\* The arm State::Pos(i, sign, skipped): the successors inserted into
\* tmp_states, and whether the arm overflowed or indexed out of range.
PosStep(r, skip, s) ==
    LET n == Len(r)
        i == s.i
        m1 == assess_move(r, i, s.sign, i + 1)
        m2 == assess_move(r, i, s.sign, i + 2)
        trySkip == ~s.skipped /\ skip
        skipAssessed == trySkip /\ i # n - 2
    IN  IF n = 0
        THEN [next |-> {}, overflow |-> TRUE, oob |-> TRUE]
        ELSE IF i = n - 1
        THEN [next |-> {End}, overflow |-> FALSE, oob |-> FALSE]
        ELSE [next |->
                (IF m1.valid THEN {Pos(i + 1, m1.sign, s.skipped)} ELSE {})
                \cup (IF trySkip /\ i = n - 2 THEN {End} ELSE {})
                \cup (IF skipAssessed /\ m2.valid
                      THEN {Pos(i + 2, m2.sign, TRUE)} ELSE {}),
              overflow |-> m1.overflow \/ (skipAssessed /\ m2.overflow),
              oob |-> m1.oob \/ (skipAssessed /\ m2.oob)]

\* (For an empty report report.len() - 1 underflows; no Pos state exists then.)
\* The arm panics: always on an index out of range, and on an overflow in a
\* build with overflow checks.
PosPanics(r, skip, checks, s) ==
    LET st == PosStep(r, skip, s) IN st.oob \/ (checks /\ st.overflow)

\* Successors of one state of the frontier (End returns before inserting).
Step(r, skip, s) ==
    IF s.tag = "Start" THEN StartStep(r, skip)
    ELSE IF s.tag = "Pos" THEN PosStep(r, skip, s).next
    ELSE {}

\* The while loop from a frontier on: the set of values report_safety can
\* end with.  The frontier is drained in the order of a HashSet, so when a
\* frontier holds End and a state whose arm panics either may come first.
RECURSIVE Explore(_, _, _, _)
Explore(r, skip, checks, frontier) ==
    IF frontier = {} THEN {"Unsafe"}
    ELSE LET ends == End \in frontier
             panics == \E s \in frontier :
                          s.tag = "Pos" /\ PosPanics(r, skip, checks, s)
         IN  (IF ends THEN {"Safe"} ELSE {})
             \cup (IF panics THEN {"Panic"} ELSE {})
             \cup (IF ~ends /\ ~panics
                   THEN Explore(r, skip, checks,
                                UNION {Step(r, skip, s) : s \in frontier})
                   ELSE {})

\* report_safety(report, skip_enabled) in a build with or without overflow
\* checks: the set of its possible outcomes.
report_safety(r, skip, checks) == Explore(r, skip, checks, {Start})

----------------------------------------------------------------------------
(* Day 2: report_safety as a state machine, one arm of the match per step. *)

NotCalled == [status |-> "none", count |-> 0]

NotParsed == [status |-> "none", value |-> <<>>]

IdleSafety ==
    /\ report = <<>>
    /\ skip_enabled = FALSE
    /\ states = {}
    /\ tmp_states = {}
    /\ rounds = 0
    /\ result = "Idle"
    /\ overflowed = FALSE

IdleAgg ==
    /\ reports = <<>>
    /\ count1 = NotCalled
    /\ count2 = NotCalled

IdleDay1 ==
    /\ pairs = <<>>
    /\ left = <<>>
    /\ right = <<>>
    /\ pc1 = "idle"
    /\ sum = <<0, 0>>

IdleParse ==
    /\ input = <<>>
    /\ grammar = "none"
    /\ leading_zeros = FALSE
    /\ parsed = NotParsed

Init ==
    /\ report \in Reports
    /\ skip_enabled \in BOOLEAN
    /\ overflow_checks \in BOOLEAN
    /\ states = {Start}
    /\ tmp_states = {}
    /\ rounds = 1
    /\ result = "Running"
    /\ overflowed = FALSE
    /\ IdleAgg /\ IdleDay1 /\ IdleParse

Others == <<overflow_checks, aggVars, day1Vars, parseVars>>

ProcessStart ==
    /\ result = "Running"
    /\ Start \in states
    /\ states' = states \ {Start}
    /\ tmp_states' = tmp_states \cup StartStep(report, skip_enabled)
    /\ UNCHANGED <<report, skip_enabled, rounds, result, overflowed, Others>>

ProcessPos ==
    /\ result = "Running"
    /\ \E s \in states :
        /\ s.tag = "Pos"
        /\ LET st == PosStep(report, skip_enabled, s) IN
            IF PosPanics(report, skip_enabled, overflow_checks, s)
            THEN /\ result' = "Panic"
                 /\ UNCHANGED <<states, tmp_states, overflowed>>
            ELSE /\ states' = states \ {s}
                 /\ tmp_states' = tmp_states \cup st.next
                 /\ overflowed' = (overflowed \/ st.overflow)
                 /\ UNCHANGED result
    /\ UNCHANGED <<report, skip_enabled, rounds, Others>>

ProcessEnd ==
    /\ result = "Running"
    /\ End \in states
    /\ result' = "Safe"
    /\ UNCHANGED <<report, skip_enabled, states, tmp_states, rounds, overflowed, Others>>

\* states.extend(tmp_states.drain()) and the loop condition: another round
ExtendStates ==
    /\ result = "Running"
    /\ states = {}
    /\ tmp_states # {}
    /\ states' = tmp_states
    /\ tmp_states' = {}
    /\ rounds' = rounds + 1
    /\ UNCHANGED <<report, skip_enabled, result, overflowed, Others>>

\* states.extend(tmp_states.drain()) left states empty: the loop ends
ReturnUnsafe ==
    /\ result = "Running"
    /\ states = {}
    /\ tmp_states = {}
    /\ result' = "Unsafe"
    /\ UNCHANGED <<report, skip_enabled, states, tmp_states, rounds, overflowed, Others>>

Next == ProcessStart \/ ProcessPos \/ ProcessEnd \/ ExtendStates \/ ReturnUnsafe

Spec == Init /\ [][Next]_vars

----------------------------------------------------------------------------
(* What the claims about report_safety speak of. *)

Returned == result \in {"Safe", "Unsafe", "Panic"}

\* the mathematical signed difference b - a of two levels
TrueDelta(a, b) == SubW(b, a)

\* strictly monotonic in one direction with every adjacent gap in 1 .. 3
MonotoneGap(r) ==
    \E dir \in {-1, 1} :
        \A k \in 1..(Len(r) - 1) :
            /\ signum(TrueDelta(r[k], r[k + 1])) = dir
            /\ InGap(AbsW(TrueDelta(r[k], r[k + 1])))

RemoveAt(r, k) == [j \in 1..(Len(r) - 1) |-> IF j < k THEN r[j] ELSE r[j + 1]]

\* at most one index can be deleted so that the rest is MonotoneGap
Repairable(r) == MonotoneGap(r) \/ \E k \in 1..Len(r) : MonotoneGap(RemoveAt(r, k))

\* the moves the arm of Pos state s assesses with assess_move
AssessedMoves(r, skip, s) ==
    IF s.i >= Len(r) - 1 THEN {}
    ELSE {s.i + 1}
         \cup (IF ~s.skipped /\ skip /\ s.i # Len(r) - 2 THEN {s.i + 2} ELSE {})

SmallLevels(r) == \A k \in 1..Len(r) : r[k][1] < Half

\* C1: with skip enabled report_safety returns Safe exactly when deleting at
\* most one level leaves a strictly monotonic sequence with gaps in 1 .. 3.
C1_SkipSafeIffRepairable ==
    (skip_enabled /\ Returned) => (result = "Safe" <=> Repairable(report))

\* C2: without skip, a report of two or more levels is Safe exactly when it
\* is strictly monotonic with gaps in 1 .. 3, and no skip move is taken.
C2_NoSkipSafeIffMonotone ==
    (~skip_enabled /\ Len(report) >= 2) =>
        /\ Returned => (result = "Safe" <=> MonotoneGap(report))
        /\ \A s \in states \cup tmp_states : ~s.skipped

\* C3: a report of length 0 or 1 is Safe under both tolerance settings.
C3_ShortReportSafe ==
    (Len(report) <= 1 /\ Returned) => result = "Safe"

\* C6: report_safety never panics, no i32 operation overflows, and the while
\* loop runs at most len(report) + 2 rounds.
C6_NoPanicBoundedRounds ==
    /\ result # "Panic"
    /\ ~overflowed
    /\ rounds <= Len(report) + 2

\* C9: a move that assess_move accepts has a true gap in 1 .. 3, in the
\* direction already established, for levels in the whole u32 range.
C9_ValidMoveHasTrueGap ==
    \A s \in states :
        s.tag = "Pos" =>
            \A to \in AssessedMoves(report, skip_enabled, s) :
                assess_move(report, s.i, s.sign, to).valid =>
                    LET d == TrueDelta(report[s.i + 1], report[to + 1]) IN
                        /\ InGap(AbsW(d))
                        /\ s.sign # 0 => signum(d) = s.sign

\* C10: every Pos state of a frontier has a valid index and a direction in
\* {-1, 0, 1}; a move Pos -> Pos never clears skip_used, a skip move starts
\* with skip_used false and ends with it true, and a direction once set is
\* kept.
C10_FrontierInvariant ==
    /\ \A s \in states \cup tmp_states :
          s.tag = "Pos" =>
              /\ 0 <= s.i /\ s.i < Len(report)
              /\ s.sign \in {-1, 0, 1}
              /\ s.skipped \in BOOLEAN
    /\ \A s \in states :
          s.tag = "Pos" =>
              \A t \in PosStep(report, skip_enabled, s).next :
                  t.tag = "Pos" =>
                      /\ t.i \in {s.i + 1, s.i + 2}
                      /\ s.skipped => t.skipped
                      /\ t.i = s.i + 2 => (~s.skipped /\ t.skipped /\ skip_enabled)
                      /\ t.i = s.i + 1 => t.skipped = s.skipped
                      /\ t.sign \in {-1, 1}
                      /\ s.sign # 0 => t.sign = s.sign

\* a frontier holds a state that has skipped and has a direction, and moves on
C10_Witness ==
    \E s \in states :
        /\ s.tag = "Pos" /\ s.skipped /\ s.sign # 0
        /\ \E t \in PosStep(report, skip_enabled, s).next : t.tag = "Pos"

----------------------------------------------------------------------------
(* Cross-checks of the model: the state machine and the operator           *)
(* report_safety describe the same function, and away from the two known   *)
(* defects (the empty report, levels of 2^31 and more) the verdict is the  *)
(* mathematical one.                                                       *)

MachineAgreesWithOperator ==
    Returned => result \in report_safety(report, skip_enabled, overflow_checks)

OutcomeIsUnique ==
    Cardinality(report_safety(report, skip_enabled, overflow_checks)) = 1

\* the loop runs at most len(report) + 2 rounds and no arm indexes out of
\* range, also for the levels on which the i32 arithmetic overflows
RoundsAndIndexesBounded ==
    /\ rounds <= Len(report) + 2
    /\ \A s \in states :
          s.tag = "Pos" => ~PosStep(report, skip_enabled, s).oob

VerdictRightOnSmallLevels ==
    (Returned /\ SmallLevels(report) /\ Len(report) >= 1) =>
        /\ result # "Panic" /\ ~overflowed
        /\ skip_enabled => (result = "Safe" <=> Repairable(report))
        /\ ~skip_enabled => (result = "Safe" <=> MonotoneGap(report))

----------------------------------------------------------------------------
(* Day 2: part1 and part2. *)

\* most reports in a collection built from SampleReports
MaxReports == 3

\* the filter with != in place of ==
IsSafe_negated(v) == v # "Safe"

\* .filter(|s| *s == Safety::Safe)
IsSafe(v) == v = "Safe"

\* pairs.iter().map(|r| report_safety(r, skip)).filter(..).count(): the set
\* of possible results; a panic of report_safety ends the call.
RECURSIVE count_safe(_, _, _)
count_safe(rs, skip, checks) ==
    IF rs = <<>> THEN {[status |-> "ok", count |-> 0]}
    ELSE {IF h = "Panic" \/ t.status = "panic"
            THEN [status |-> "panic", count |-> 0]
            ELSE [status |-> "ok", count |-> t.count + (IF IsSafe(h) THEN 1 ELSE 0)] :
          h \in report_safety(Head(rs), skip, checks),
          t \in count_safe(Tail(rs), skip, checks)}

part1(rs, checks) == count_safe(rs, FALSE, checks)

part2(rs, checks) == count_safe(rs, TRUE, checks)

\* the reports of fn example() in the tests
Example ==
    << <<U32(7), U32(6), U32(4), U32(2), U32(1)>>,
       <<U32(1), U32(2), U32(7), U32(8), U32(9)>>,
       <<U32(9), U32(7), U32(6), U32(2), U32(1)>>,
       <<U32(1), U32(3), U32(2), U32(4), U32(5)>>,
       <<U32(8), U32(6), U32(4), U32(4), U32(1)>>,
       <<U32(1), U32(3), U32(6), U32(7), U32(9)>> >>

\* reports of every kind: empty, safe, repairable, unsafe, overflowing
SampleReports ==
    { <<>>,
      <<U32(1), U32(2)>>,
      <<U32(1), U32(5), U32(2)>>,
      <<U32(1), U32(1), U32(1)>>,
      <<U32(0), U32(5), U32Mid>>,
      <<U32(0), U32Mid>>,
      <<U32Max, U32(0)>> }

Collections ==
    {<<r>> : r \in Reports} \cup SeqsUpTo(SampleReports, MaxReports) \cup {Example}

InitAgg ==
    /\ reports \in Collections
    /\ overflow_checks \in BOOLEAN
    /\ count1 = NotCalled
    /\ count2 = NotCalled
    /\ IdleSafety /\ IdleDay1 /\ IdleParse

CallPart1 ==
    /\ count1.status = "none"
    /\ count1' \in part1(reports, overflow_checks)
    /\ UNCHANGED <<reports, count2, overflow_checks, safetyVars, day1Vars, parseVars>>

CallPart2 ==
    /\ count2.status = "none"
    /\ count2' \in part2(reports, overflow_checks)
    /\ UNCHANGED <<reports, count1, overflow_checks, safetyVars, day1Vars, parseVars>>

NextAgg == CallPart1 \/ CallPart2

SpecAgg == InitAgg /\ [][NextAgg]_vars

Outcomes(r, skip) == report_safety(r, skip, overflow_checks)

SafeCount(skip) ==
    Cardinality({i \in 1..Len(reports) : Outcomes(reports[i], skip) = {"Safe"}})

SomePanics(skip) ==
    \E i \in 1..Len(reports) : "Panic" \in Outcomes(reports[i], skip)

\* rs with its items i and i + 1 exchanged
Swapped(rs, i) ==
    [k \in 1..Len(rs) |-> IF k = i THEN rs[i + 1] ELSE IF k = i + 1 THEN rs[i] ELSE rs[k]]

Reversed(rs) == [i \in 1..Len(rs) |-> rs[Len(rs) + 1 - i]]

\* rs in another order: two neighbours exchanged, or the whole reversed.
\* Every order is reached by exchanging neighbours, and the collections
\* explored are closed under it.
Reorderings(rs) ==
    {Swapped(rs, i) : i \in 1..(Len(rs) - 1)}
    \cup (IF Len(rs) > 1 THEN {Reversed(rs)} ELSE {})

CountIsRight(c, skip) ==
    /\ c.status = "ok" =>
          /\ ~SomePanics(skip)
          /\ c.count = SafeCount(skip)
          /\ c.count \in 0..Len(reports)
    /\ c.status = "panic" => SomePanics(skip)
    /\ c.status # "none" =>
          \A rs \in Reorderings(reports) : c \in count_safe(rs, skip, overflow_checks)

C5_CountsSafeReports ==
    /\ CountIsRight(count1, FALSE)
    /\ CountIsRight(count2, TRUE)
    /\ (reports = Example /\ count1.status # "none") => count1 = [status |-> "ok", count |-> 2]
    /\ (reports = Example /\ count2.status # "none") => count2 = [status |-> "ok", count |-> 4]

\* both parts have returned for the six example reports
C5_Witness ==
    /\ reports = Example
    /\ count1.status = "ok" /\ count2.status = "ok"

----------------------------------------------------------------------------
(* Day 1: part1. *)

\* most pairs in a list
MaxPairs == 3

WrapU32(n) == <<n[1] % Limb, n[2]>>

\* u32::abs_diff
abs_diff(a, b) == AbsW(SubW(a, b))

\* x placed into the ascending sequence s
Insert(x, s) ==
    LET k == Cardinality({j \in 1..Len(s) : LessW(s[j], x)})
    IN  SubSeq(s, 1, k) \o <<x>> \o SubSeq(s, k + 1, Len(s))

\* the columns left as they come
sort_noop(s) == s

\* Vec::sort
RECURSIVE sort(_)
sort(s) == IF s = <<>> THEN <<>> ELSE Insert(Head(s), sort(Tail(s)))

\* pairs.iter().cloned().unzip()
unzip(ps) == [left |-> [k \in 1..Len(ps) |-> ps[k][1]],
              right |-> [k \in 1..Len(ps) |-> ps[k][2]]]

Day1Levels == {U32(0), U32(2), U32Max}

\* the list of test_part1
Day1Example ==
    << <<U32(3), U32(4)>>, <<U32(4), U32(3)>>, <<U32(2), U32(5)>>,
       <<U32(1), U32(3)>>, <<U32(3), U32(9)>>, <<U32(3), U32(3)>> >>

PairLists == SeqsUpTo(Day1Levels \X Day1Levels, MaxPairs) \cup {Day1Example}

InitDay1 ==
    /\ pairs \in PairLists
    /\ overflow_checks \in BOOLEAN
    /\ left = <<>>
    /\ right = <<>>
    /\ pc1 = "start"
    /\ sum = <<0, 0>>
    /\ overflowed = FALSE
    /\ report = <<>> /\ skip_enabled = FALSE /\ states = {} /\ tmp_states = {}
    /\ rounds = 0 /\ result = "Idle"
    /\ IdleAgg /\ IdleParse

Day1Others == <<report, skip_enabled, states, tmp_states, rounds, result,
                overflow_checks, aggVars, parseVars>>

\* unzip, left.sort(), right.sort()
SortColumns ==
    /\ pc1 = "start"
    /\ left' = sort(unzip(pairs).left)
    /\ right' = sort(unzip(pairs).right)
    /\ pc1' = "sum"
    /\ UNCHANGED <<pairs, sum, overflowed, Day1Others>>

\* one item of left.into_iter().zip(right).map(..) added by sum()
AddDistance ==
    /\ pc1 = "sum"
    /\ left # <<>> /\ right # <<>>
    /\ LET wide == AddW(sum, abs_diff(Head(left), Head(right))) IN
        IF ~InU32(wide) /\ overflow_checks
        THEN /\ pc1' = "panic"
             /\ UNCHANGED <<left, right, sum, overflowed>>
        ELSE /\ sum' = WrapU32(wide)
             /\ overflowed' = (overflowed \/ ~InU32(wide))
             /\ left' = Tail(left)
             /\ right' = Tail(right)
             /\ pc1' = "sum"
    /\ UNCHANGED <<pairs, Day1Others>>

\* zip is exhausted: sum() returns the accumulator
ReturnSum ==
    /\ pc1 = "sum"
    /\ ~(left # <<>> /\ right # <<>>)
    /\ pc1' = "done"
    /\ UNCHANGED <<pairs, left, right, sum, overflowed, Day1Others>>

NextDay1 == SortColumns \/ AddDistance \/ ReturnSum

SpecDay1 == InitDay1 /\ [][NextDay1]_vars

Column(ps, c) == [k \in 1..Len(ps) |-> ps[k][c]]

\* the k-th smallest entry of a column, by rank
Kth(col, k) ==
    CHOOSE v \in {col[j] : j \in 1..Len(col)} :
        /\ Cardinality({j \in 1..Len(col) : LessW(col[j], v)}) < k
        /\ k <= Cardinality({j \in 1..Len(col) : ~LessW(v, col[j])})

RECURSIVE DistanceUpTo(_, _)
DistanceUpTo(ps, k) ==
    IF k = 0 THEN <<0, 0>>
    ELSE AddW(DistanceUpTo(ps, k - 1),
              AbsW(SubW(Kth(Column(ps, 1), k), Kth(Column(ps, 2), k))))

\* the sum over k of |L[k] - R[k]|, L and R the columns in ascending order
TotalDistance(ps) == DistanceUpTo(ps, Len(ps))

PairOrders(ps) == Reorderings(ps)

\* C8: day 1 part1 returns the sum of |L[k] - R[k]| over the two columns
\* sorted independently, whatever the order of the pairs; the u32 sum does
\* not overflow when the total fits in 32 bits (11 for the example list).
C8_Day1SumOfSortedDistances ==
    pc1 \in {"done", "panic"} =>
        /\ InU32(TotalDistance(pairs)) =>
              /\ pc1 = "done"
              /\ ~overflowed
              /\ sum = TotalDistance(pairs)
        /\ pc1 = "done" =>
              \A ps \in PairOrders(pairs) : sum = WrapU32(TotalDistance(ps))
        /\ pc1 = "panic" =>
              \A ps \in PairOrders(pairs) : ~InU32(TotalDistance(ps))
        /\ (pairs = Day1Example) => (pc1 = "done" /\ sum = U32(11))

\* part1 has returned for a list that is not in column order
C8_Witness ==
    /\ pc1 = "done"
    /\ Len(pairs) >= 2
    /\ \E k \in 1..(Len(pairs) - 1) : LessW(pairs[k + 1][1], pairs[k][1])
    /\ sum # <<0, 0>>

----------------------------------------------------------------------------
(* The parsers: winnow combinators applied to a sequence of characters.    *)
(* A parser returns [ok, value, rest]; rest is the unconsumed input.       *)

\* longest input text explored
MaxInput == 5

DigitChars == {"0", "1", "2", "3", "4", "5", "6", "7", "8", "9"}

\* space1 takes spaces and tabs
BlankChars == {"sp", "tab"}

\* the characters the explored inputs are made of ("x": any other character)
InputChars == {"0", "1", "sp", "tab", "nl", "x"}

DigitValue(c) ==
    CASE c = "0" -> 0 [] c = "1" -> 1 [] c = "2" -> 2 [] c = "3" -> 3
      [] c = "4" -> 4 [] c = "5" -> 5 [] c = "6" -> 6 [] c = "7" -> 7
      [] c = "8" -> 8 [] c = "9" -> 9

Fail(s) == [ok |-> FALSE, value |-> <<>>, rest |-> s]

Drop(s, k) == SubSeq(s, k + 1, Len(s))

\* length of the longest prefix of s made of characters of S
RECURSIVE Run(_, _)
Run(s, S) == IF s # <<>> /\ Head(s) \in S THEN 1 + Run(Tail(s), S) ELSE 0

\* the digits read as a decimal number; a value of 2^32 or more stays
\* outside u32 (the conversion to u32 fails on it)
RECURSIVE DecValue(_)
DecValue(ds) ==
    IF ds = <<>> THEN <<0, 0>>
    ELSE LET front == DecValue(SubSeq(ds, 1, Len(ds) - 1))
         IN  IF ~InU32(front) THEN front
             ELSE Norm(front[1] * 10, front[2] * 10 + DigitValue(ds[Len(ds)]))

\* winnow::ascii::dec_uint::<_, u32, _>.  Depending on the winnow release it
\* either takes every leading digit ("007" is 7) or takes "0" alone when
\* the text starts with 0.
dec_uint(s, zeros) ==
    LET n == Run(s, DigitChars)
        take == IF zeros \/ n = 0 \/ s[1] # "0" THEN n ELSE 1
        v == DecValue(SubSeq(s, 1, take))
    IN  IF n = 0 \/ ~InU32(v) THEN Fail(s)
        ELSE [ok |-> TRUE, value |-> v, rest |-> Drop(s, take)]

\* winnow::ascii::space1
space1(s) ==
    LET n == Run(s, BlankChars)
    IN  IF n = 0 THEN Fail(s) ELSE [ok |-> TRUE, value |-> <<>>, rest |-> Drop(s, n)]

\* winnow::ascii::newline
newline(s) ==
    IF s # <<>> /\ Head(s) = "nl"
    THEN [ok |-> TRUE, value |-> <<>>, rest |-> Tail(s)]
    ELSE Fail(s)

\* separated(1.., num, space1) after its first number: a separator and a
\* number at a time; when either fails the input is reset to before the
\* separator and the numbers so far are returned
RECURSIVE report_more(_, _, _)
report_more(acc, s, zeros) ==
    LET sep == space1(s)
        num == dec_uint(sep.rest, zeros)
    IN  IF ~sep.ok \/ ~num.ok THEN [ok |-> TRUE, value |-> acc, rest |-> s]
        ELSE report_more(Append(acc, num.value), num.rest, zeros)

\* fn report (day 2)
parse_report(s, zeros) ==
    LET num == dec_uint(s, zeros)
    IN  IF ~num.ok THEN Fail(s) ELSE report_more(<<num.value>>, num.rest, zeros)

\* fn pair (day 1): seq!(num, _: space1, num)
parse_pair(s, zeros) ==
    LET a == dec_uint(s, zeros)
        sep == space1(a.rest)
        b == dec_uint(sep.rest, zeros)
    IN  IF ~a.ok \/ ~sep.ok \/ ~b.ok THEN Fail(s)
        ELSE [ok |-> TRUE, value |-> <<a.value, b.value>>, rest |-> b.rest]

\* one line of the grammar: fn report or fn pair
parse_item(g, s, zeros) ==
    IF g = "reports" THEN parse_report(s, zeros) ELSE parse_pair(s, zeros)

\* separated(1.., item, newline) after its first item
RECURSIVE items_more(_, _, _, _)
items_more(g, acc, s, zeros) ==
    LET sep == newline(s)
        item == parse_item(g, sep.rest, zeros)
    IN  IF ~sep.ok \/ ~item.ok THEN [ok |-> TRUE, value |-> acc, rest |-> s]
        ELSE items_more(g, Append(acc, item.value), item.rest, zeros)

\* fn reports (day 2) and fn list (day 1)
parse_items(g, s, zeros) ==
    LET item == parse_item(g, s, zeros)
    IN  IF ~item.ok THEN Fail(s) ELSE items_more(g, <<item.value>>, item.rest, zeros)

\* parse_next in place of parse: the rest of the input is not looked at
parse_complete_no_eof(r) == r.ok

\* Parser::parse: the parser must succeed and consume the whole input
parse_complete(r) == r.ok /\ r.rest = <<>>

\* aoc_parse(reports, input) / aoc_parse(list, input)
aoc_parse(g, s, zeros) ==
    LET r == parse_items(g, s, zeros)
    IN  IF parse_complete(r) THEN [status |-> "ok", value |-> r.value]
        ELSE [status |-> "err", value |-> <<>>]

\* "3   4\n4   3"
PairText == <<"3", "sp", "sp", "sp", "4", "nl", "4", "sp", "sp", "sp", "3">>

\* "7 6 4 2 1\n1 2 7 8 9"
ReportText == <<"7", "sp", "6", "sp", "4", "sp", "2", "sp", "1", "nl",
                "1", "sp", "2", "sp", "7", "sp", "8", "sp", "9">>

\* "4294967295" and "4294967296": the largest u32 and the number after it
MaxText == <<"4", "2", "9", "4", "9", "6", "7", "2", "9", "5">>

OverMaxText == <<"4", "2", "9", "4", "9", "6", "7", "2", "9", "6">>

Inputs ==
    SeqsUpTo(InputChars, MaxInput) \cup {PairText, ReportText, MaxText, OverMaxText}

InitParse ==
    /\ input \in Inputs
    /\ grammar \in {"reports", "list"}
    /\ leading_zeros \in BOOLEAN
    /\ parsed = NotParsed
    /\ overflow_checks = FALSE
    /\ IdleSafety /\ IdleAgg /\ IdleDay1

\* pub fn parse of day 2 (grammar "reports") and of day 1 (grammar "list")
CallParse ==
    /\ parsed.status = "none"
    /\ parsed' = aoc_parse(grammar, input, leading_zeros)
    /\ UNCHANGED <<input, grammar, leading_zeros, overflow_checks,
                   safetyVars, aggVars, day1Vars>>

NextParse == CallParse

SpecParse == InitParse /\ [][NextParse]_vars

\* length of the longest prefix of s made of characters outside S
RECURSIVE RunNot(_, _)
RunNot(s, S) == IF s # <<>> /\ Head(s) \notin S THEN 1 + RunNot(Tail(s), S) ELSE 0

\* the lines of a text: the pieces between its line breaks
RECURSIVE Lines(_)
Lines(s) ==
    LET n == RunNot(s, {"nl"})
    IN  IF n = Len(s) THEN <<s>> ELSE <<SubSeq(s, 1, n)>> \o Lines(Drop(s, n + 1))

\* the tokens of a line: its maximal pieces free of spaces and tabs
RECURSIVE Tokens(_)
Tokens(line) ==
    LET rest == Drop(line, Run(line, BlankChars))
        n == RunNot(rest, BlankChars)
    IN  IF rest = <<>> THEN <<>> ELSE <<SubSeq(rest, 1, n)>> \o Tokens(Drop(rest, n))

IsNumber(tok) == \A k \in 1..Len(tok) : tok[k] \in DigitChars

\* the input is empty, a line is empty, or a token is not numeric
BadInput(s) ==
    \/ s = <<>>
    \/ \E i \in 1..Len(Lines(s)) :
          \/ Lines(s)[i] = <<>>
          \/ \E j \in 1..Len(Tokens(Lines(s)[i])) : ~IsNumber(Tokens(Lines(s)[i])[j])

\* a non-empty sequence of unsigned integers separated by spaces or tabs
WellFormedLine(line) ==
    /\ line # <<>>
    /\ \A k \in 1..Len(line) : line[k] \in DigitChars \cup BlankChars
    /\ line[1] \in DigitChars
    /\ line[Len(line)] \in DigitChars

LineValues(line) == [j \in 1..Len(Tokens(line)) |-> DecValue(Tokens(line)[j])]

\* C7: parse is all-or-nothing.  It returns an error, with no partial list,
\* whenever the input is empty, a line is empty or a token is not numeric;
\* it returns Ok only when every line is a non-empty sequence of unsigned
\* integers separated by spaces or tabs (two integers per line for day 1),
\* and then with the values of every line, in order.
C7_ParseAllOrNothing ==
    parsed.status # "none" =>
        /\ parsed.status \in {"ok", "err"}
        /\ parsed.status = "err" => parsed.value = <<>>
        /\ BadInput(input) => parsed.status = "err"
        /\ parsed.status = "ok" =>
              /\ \A i \in 1..Len(Lines(input)) :
                    /\ WellFormedLine(Lines(input)[i])
                    /\ \A j \in 1..Len(Tokens(Lines(input)[i])) :
                          InU32(DecValue(Tokens(Lines(input)[i])[j]))
                    /\ grammar = "list" => Len(Tokens(Lines(input)[i])) = 2
              /\ parsed.value = [i \in 1..Len(Lines(input)) |-> LineValues(Lines(input)[i])]
        /\ input = OverMaxText => parsed.status = "err"
        /\ (input = MaxText /\ grammar = "reports") =>
              parsed = [status |-> "ok", value |-> << <<U32Max>> >>]
        /\ (input = PairText /\ grammar = "list") =>
              parsed = [status |-> "ok",
                        value |-> << <<U32(3), U32(4)>>, <<U32(4), U32(3)>> >>]

\* parse has failed on a text whose first line is good and a later one empty
C7_Witness ==
    /\ parsed.status = "err"
    /\ Len(Lines(input)) >= 3
    /\ WellFormedLine(Lines(input)[1])
    /\ Lines(input)[2] = <<>>
    /\ WellFormedLine(Lines(input)[3])

====
